---------------------------- MODULE Spec2Model ----------------------------
(***************************************************************************)
(* Curation and ranking pipeline of viral_content_researcher:              *)
(*   curator.py     ContentCurator (scoring, curate_topics, deduplicate)   *)
(*   researcher.py  ViralContentResearcher (fan-out, merge, session)       *)
(*                                                                         *)
(* Numbers.  Scores are Python floats.  They are kept exact here:          *)
(*   - virality_score is held in hundredths (round(x, 2) * 100), an        *)
(*     integer; 10000 is 100.0.                                            *)
(*   - the engagement factor is held in fiftieths (E50 = 50 * engagement), *)
(*     because it is score/50 + comments/25 + shares/10.                   *)
(*   - the uniqueness factor is the rational UniqNum / UniqDen.            *)
(*   - a similarity threshold is a pair <<num, den>>; 0.6 is <<3, 5>>.     *)
(*   round(x, 2) is taken on the exact rational, ties to even; on an exact *)
(*   tie the IEEE double may land on either neighbour.                     *)
(* Time.  datetime.now(timezone.utc) is the variable now, in whole hours;  *)
(* published_at is Some(hour) on the same (UTC) axis or None.  Every adapter  *)
(* of the repository builds published_at with tz=timezone.utc.             *)
(* Objects.  A list of Topic objects is a sequence of records; the result  *)
(* of curate_topics is given as positions into the caller's list, so that  *)
(* in-place writes of virality_score stay visible through both.            *)
(***************************************************************************)
EXTENDS Integers, Sequences, FiniteSets, TLC

\* Optional[T]: None is the empty tuple, a value x is Some(x) = <<x>>.
None == <<>>
Some(x) == <<x>>

Min(a, b) == IF a <= b THEN a ELSE b
Max(a, b) == IF a >= b THEN a ELSE b

Range(s) == {s[i] : i \in 1..Len(s)}

SeqsUpTo(S, n) == UNION {[1..k -> S] : k \in 0..n}

(***************************************************************************)
(* Text.  str.lower() and the substring test `kw in text` over the words   *)
(* that occur in the modelled titles.                                      *)
(***************************************************************************)
Words ==
    {"AI", "ai", "Marketing", "marketing", "Tools", "tools", "for", "2025",
     "Best", "SEO", "Guide", "Free", "New", "Growth", "Hack", "Update"}

lower(w) ==
    CASE w = "AI" -> "ai"
      [] w = "Marketing" -> "marketing"
      [] w = "Tools" -> "tools"
      [] w = "Best" -> "best"
      [] w = "SEO" -> "seo"
      [] w = "Guide" -> "guide"
      [] w = "Free" -> "free"
      [] w = "New" -> "new"
      [] w = "Growth" -> "growth"
      [] w = "Hack" -> "hack"
      [] w = "Update" -> "update"
      [] OTHER -> w

\* <<kw, w>>: kw is a substring of the lower-case word w.
SubstringOf ==
    {<<"ai", "ai">>, <<"tool", "tools">>, <<"guide", "guide">>,
     <<"free", "free">>, <<"growth", "growth">>, <<"hack", "hack">>,
     <<"new", "new">>, <<"update", "update">>, <<"2025", "2025">>}

HIGH_VALUE_KEYWORDS ==
    {"ai", "chatgpt", "automation", "no-code", "growth",
     "viral", "10x", "secret", "strategy", "hack",
     "free", "tool", "template", "guide", "case study",
     "revenue", "million", "scaling", "framework", "playbook"}

TRENDING_INDICATORS ==
    {"just launched", "new", "breaking", "update", "2024", "2025",
     "announcement", "release", "introducing", "first"}

\* set(title.lower().split())
TitleWords(title) == {lower(title[i]) : i \in 1..Len(title)}

\* The words of text = f"{title_lower} {desc_lower}".
TextWords(topic) == TitleWords(topic.title) \cup TitleWords(topic.description)

\* kw in text
InText(kw, text) == \E w \in text : <<kw, w>> \in SubstringOf

(***************************************************************************)
(* ContentCurator configuration (__init__ defaults).                       *)
(***************************************************************************)
WEIGHTS ==
    [engagement |-> 25, recency |-> 20, relevance |-> 25,
     velocity |-> 15, uniqueness |-> 15]

DefaultMinScore == 3000
max_age_hours == 72
boost_categories == {"ai_marketing", "growth_hacking", "seo"}
DefaultThreshold == <<3, 5>>

(***************************************************************************)
(* Topic (models.py).                                                      *)
(***************************************************************************)
Topic(id, title, category, score, comments, shares, vs, tv, keywords, pub) ==
    [id |-> id, title |-> title, description |-> <<>>, category |-> category,
     score |-> score, comments |-> comments, shares |-> shares,
     virality_score |-> vs, trending_velocity |-> tv,
     keywords |-> keywords, published_at |-> pub]


(***************************************************************************)
(* ScoringEngine: the five factors (curator.py 71-185).                    *)
(***************************************************************************)
\* 50 * calculate_engagement_score(topic): min(score/50, 40) is
\* min(score, 2000)/50, min(comments/25, 30) is min(2*comments, 1500)/50,
\* min(shares/10, 30) is min(5*shares, 1500)/50, and the cap 100 is 5000/50.
calculate_engagement_score(topic) ==
    LET s  == IF topic.score > 0 THEN Min(topic.score, 2000) ELSE 0
        c  == IF topic.comments > 0 THEN Min(2 * topic.comments, 1500) ELSE 0
        sh == IF topic.shares > 0 THEN Min(5 * topic.shares, 1500) ELSE 0
    IN  Min(s + c + sh, 5000)

\* (now - published).total_seconds() / 3600
hours_old(topic, clock) == clock - topic.published_at[1]

\* Mutant: a topic without publish time is aged from the hour it was
\* discovered (hour 100) instead of getting the fixed 30.
calculate_recency_score_discovered(topic, clock) ==
    LET h == IF topic.published_at = None THEN clock - 100
             ELSE hours_old(topic, clock)
    IN  IF h < 2 THEN 100
        ELSE IF h < 6 THEN 90
        ELSE IF h < 12 THEN 80
        ELSE IF h < 24 THEN 70
        ELSE IF h < 48 THEN 50
        ELSE IF h < 72 THEN 30
        ELSE 10

\* Mutant: content of 72 hours or more gets recency 0.
calculate_recency_score_stale_zero(topic, clock) ==
    IF topic.published_at = None THEN 30
    ELSE LET h == hours_old(topic, clock)
         IN  IF h < 2 THEN 100
             ELSE IF h < 6 THEN 90
             ELSE IF h < 12 THEN 80
             ELSE IF h < 24 THEN 70
             ELSE IF h < 48 THEN 50
             ELSE IF h < 72 THEN 30
             ELSE 0

calculate_recency_score(topic, clock) ==
    IF topic.published_at = None THEN 30
    ELSE LET h == hours_old(topic, clock)
         IN  IF h < 2 THEN 100
             ELSE IF h < 6 THEN 90
             ELSE IF h < 12 THEN 80
             ELSE IF h < 24 THEN 70
             ELSE IF h < 48 THEN 50
             ELSE IF h < 72 THEN 30
             ELSE 10

calculate_relevance_score(topic) ==
    LET text == TextWords(topic)
        keyword_matches  == Cardinality({kw \in HIGH_VALUE_KEYWORDS : InText(kw, text)})
        trending_matches == Cardinality({ind \in TRENDING_INDICATORS : InText(ind, text)})
        boost == IF topic.category \in boost_categories THEN 10 ELSE 0
        kws   == IF Len(topic.keywords) > 0
                 THEN Min(Len(topic.keywords) * 2, 10) ELSE 0
    IN  Min(50 + Min(keyword_matches * 5, 30) + Min(trending_matches * 5, 15)
               + boost + kws, 100)

\* Mutant: the explicit trending_velocity is used without min(..., 100).
calculate_velocity_score_unclamped(topic, clock) ==
    IF topic.trending_velocity > 0 THEN topic.trending_velocity
    ELSE IF topic.published_at = None THEN 40
    ELSE 20

\* Mutant: a topic without publish time and without explicit velocity falls
\* through to the lowest band, 20, instead of the fixed 40.
calculate_velocity_score_undated_lowest(topic, clock) ==
    IF topic.trending_velocity > 0 THEN Min(topic.trending_velocity, 100)
    ELSE IF topic.published_at = None THEN 20
    ELSE LET h    == Max(hours_old(topic, clock), 1)
             rate == topic.score + topic.comments * 2
         IN  IF rate > 50 * h THEN 100
             ELSE IF rate > 25 * h THEN 80
             ELSE IF rate > 10 * h THEN 60
             ELSE IF rate > 5 * h THEN 40
             ELSE 20

calculate_velocity_score(topic, clock) ==
    IF topic.trending_velocity > 0 THEN Min(topic.trending_velocity, 100)
    ELSE IF topic.published_at = None THEN 40
    ELSE LET h    == Max(hours_old(topic, clock), 1)
             rate == topic.score + topic.comments * 2
         IN  \* engagement_rate = rate / h
             IF rate > 50 * h THEN 100
             ELSE IF rate > 25 * h THEN 80
             ELSE IF rate > 10 * h THEN 60
             ELSE IF rate > 5 * h THEN 40
             ELSE 20

\* The largest element of a finite non-empty set of integers.
MaxOf(S) == CHOOSE x \in S : \A y \in S : y <= x

\* calculate_uniqueness_score(topic, existing_topics) as <<numerator,
\* denominator>>: overlap = len(title_words & existing_words) /
\* max(len(title_words), 1), entries with existing.id == topic.id skipped.
calculate_uniqueness_score(topic, existing_topics) ==
    IF existing_topics = None \/ existing_topics = Some(<<>>) THEN <<70, 1>>
    ELSE LET title_words == TitleWords(topic.title)
             existing == existing_topics[1]
             n == Max(Cardinality(title_words), 1)
             overlaps ==
                 {Cardinality(title_words \cap TitleWords(existing[j].title)) :
                     j \in {i \in 1..Len(existing) : existing[i].id # topic.id}}
             max_overlap == MaxOf(overlaps \cup {0})
         IN  <<Max(100 * n - 100 * max_overlap, 10 * n), n>>

\* round(num/den) for num >= 0, den > 0, ties to even.
RoundHalfEven(num, den) ==
    LET q == num \div den
        r == num % den
    IN  IF 2 * r < den THEN q
        ELSE IF 2 * r > den THEN q + 1
        ELSE IF q % 2 = 0 THEN q ELSE q + 1

\* 100 * score_topic(topic, existing_topics): the weighted sum
\*   (W.e * E50/50 + W.r * R + W.rel * Rel + W.v * V + W.u * U.num/U.den) / 100
\* in hundredths, over the common denominator 50 * U.den.
score_topic(topic, existing_topics, clock) ==
    LET e   == calculate_engagement_score(topic)
        r   == calculate_recency_score(topic, clock)
        rel == calculate_relevance_score(topic)
        v   == calculate_velocity_score(topic, clock)
        u   == calculate_uniqueness_score(topic, existing_topics)
        num == WEIGHTS.engagement * e * u[2]
               + 50 * u[2] * (WEIGHTS.recency * r + WEIGHTS.relevance * rel
                              + WEIGHTS.velocity * v)
               + 50 * WEIGHTS.uniqueness * u[1]
    IN  RoundHalfEven(num, 50 * u[2])

\* |A n B| and |A u B| of the title-token sets of two topics.
Common(a, b) == Cardinality(TitleWords(a.title) \cap TitleWords(b.title))
Union(a, b) == Cardinality(TitleWords(a.title) \cup TitleWords(b.title))

(***************************************************************************)
(* CurationPipeline: curate_topics (curator.py 205-248).                   *)
(***************************************************************************)
\* [topics[p] for p in idx]: the list of the objects at positions idx.
Pick(objs, idx) == [j \in 1..Len(idx) |-> objs[idx[j]]]

\* Mutant: the list is returned whole, without the slice.
SliceTo_whole(s, limit) == s

\* s[:limit] of a Python list.
SliceTo(s, limit) ==
    IF limit >= 0 THEN SubSeq(s, 1, Min(limit, Len(s)))
    ELSE SubSeq(s, 1, Max(Len(s) + limit, 0))

\* Mutant: an unstable descending sort, x goes ahead of the elements that
\* tie with it (sort ascending, then reverse).
InsertDesc_unstable(objs, sorted, x) ==
    LET ahead == {j \in 1..Len(sorted) :
                     objs[sorted[j]].virality_score > objs[x].virality_score}
        p == IF ahead = {} THEN 0 ELSE CHOOSE a \in ahead : \A b \in ahead : b <= a
    IN  SubSeq(sorted, 1, p) \o <<x>> \o SubSeq(sorted, p + 1, Len(sorted))

\* list.sort(key=virality_score, reverse=True) on a list of positions into
\* objs: x goes behind every element whose key is >= its own (stable).
InsertDesc(objs, sorted, x) ==
    LET ahead == {k \in 1..Len(sorted) :
                     objs[sorted[k]].virality_score >= objs[x].virality_score}
        p == IF ahead = {} THEN 0 ELSE MaxOf(ahead)
    IN  SubSeq(sorted, 1, p) \o <<x>> \o SubSeq(sorted, p + 1, Len(sorted))

RECURSIVE SortDesc(_, _)
SortDesc(objs, idx) ==
    IF idx = <<>> THEN <<>>
    ELSE InsertDesc(objs, SortDesc(objs, SubSeq(idx, 1, Len(idx) - 1)), idx[Len(idx)])

\* Mutant: the filter runs whenever categories is not None, so an empty
\* list drops every topic.
CategoryFilter_not_none(objs, idx, categories) ==
    IF categories # None
    THEN SelectSeq(idx, LAMBDA i : objs[i].category \in Range(categories[1]))
    ELSE idx

\* if categories: topics = [t for t in topics if t.category in categories]
CategoryFilter(objs, idx, categories) ==
    IF categories # None /\ categories # Some(<<>>)
    THEN SelectSeq(idx, LAMBDA i : objs[i].category \in Range(categories[1]))
    ELSE idx

\* Mutant: the age filter keeps only the topics that have a publish time,
\* whatever their age (the test on published_at inverted, the age dropped).
AgeFilter_no_age(objs, idx, clock) ==
    SelectSeq(idx, LAMBDA i : objs[i].published_at # None)

\* [t for t in topics if not t.published_at or age_hours <= max_age_hours]
AgeFilter(objs, idx, clock) ==
    SelectSeq(idx, LAMBDA i : \/ objs[i].published_at = None
                              \/ hours_old(objs[i], clock) <= max_age_hours)

\* Mutant: the topics are scored against the caller's whole list, filtered
\* out or not.
RECURSIVE ScoreAll_whole_input(_, _, _, _)
ScoreAll_whole_input(objs, idx, k, clock) ==
    IF k > Len(idx) THEN objs
    ELSE LET v == score_topic(objs[idx[k]], Some(objs), clock)
         IN  ScoreAll_whole_input([objs EXCEPT ![idx[k]].virality_score = v],
                                  idx, k + 1, clock)

\* for topic in topics: topic.virality_score = self.score_topic(topic, topics)
\* from the k-th entry of the filtered list on; the comparison batch is the
\* filtered list with the scores written so far.
RECURSIVE ScoreAll(_, _, _, _)
ScoreAll(objs, idx, k, clock) ==
    IF k > Len(idx) THEN objs
    ELSE LET batch == [j \in 1..Len(idx) |-> objs[idx[j]]]
             v == score_topic(objs[idx[k]], Some(batch), clock)
         IN  ScoreAll([objs EXCEPT ![idx[k]].virality_score = v], idx, k + 1, clock)

\* [t for t in topics if t.virality_score >= min_score]
MinScoreFilter(objs, idx, min_score) ==
    SelectSeq(idx, LAMBDA i : objs[i].virality_score >= min_score)

\* Mutant: every topic of the input is scored first, the category and age
\* filters run on the scored list.
curate_topics_score_first(topics, limit, categories, min_score, clock) ==
    LET ms     == IF min_score # None THEN min_score[1] ELSE DefaultMinScore
        all    == [i \in 1..Len(topics) |-> i]
        scored == ScoreAll(topics, all, 1, clock)
        kept   == AgeFilter(scored, CategoryFilter(scored, all, categories), clock)
        passed == MinScoreFilter(scored, kept, ms)
    IN  [objs |-> scored, out |-> SliceTo(SortDesc(scored, passed), limit)]

\* curate_topics(topics, limit, categories, min_score) at clock reading
\* clock: objs is the caller's objects after the call, out the returned list
\* as positions into it.
curate_topics(topics, limit, categories, min_score, clock) ==
    LET ms     == IF min_score # None THEN min_score[1] ELSE DefaultMinScore
        all    == [i \in 1..Len(topics) |-> i]
        kept   == AgeFilter(topics, CategoryFilter(topics, all, categories), clock)
        scored == ScoreAll(topics, kept, 1, clock)
        passed == MinScoreFilter(scored, kept, ms)
    IN  [objs |-> scored, out |-> SliceTo(SortDesc(scored, passed), limit)]

\* The list curate_topics returns, as objects.
CuratedList(r) == Pick(r.objs, r.out)

(***************************************************************************)
(* Deduplicator: deduplicate_topics (curator.py 250-273).                  *)
(***************************************************************************)
\* overlap >= similarity_threshold, with overlap =
\* len(a & b) / max(len(a | b), 1) and the threshold thr[1]/thr[2].
Similar(a, b, thr) ==
    LET wa == TitleWords(a.title)
        wb == TitleWords(b.title)
    IN  Cardinality(wa \cap wb) * thr[2] >= thr[1] * Max(Cardinality(wa \cup wb), 1)

\* unique_topics.remove(existing) on a list held as positions into objs:
\* drops the first element equal to existing (Topic is a pydantic model,
\* == compares the fields).
ListRemove(objs, s, existing) ==
    LET p == CHOOSE i \in 1..Len(s) :
                 /\ objs[s[i]] = objs[existing]
                 /\ \A j \in 1..(i - 1) : objs[s[j]] # objs[existing]
    IN  SubSeq(s, 1, p - 1) \o SubSeq(s, p + 1, Len(s))

\* Mutant: the later topic also replaces the accepted one on a tie (>=).
DedupOne_replace_on_tie(objs, unique, x, thr) ==
    LET hits == {j \in 1..Len(unique) : Similar(objs[x], objs[unique[j]], thr)}
    IN  IF hits = {} THEN Append(unique, x)
        ELSE LET existing == unique[CHOOSE j \in hits : \A h \in hits : j <= h]
             IN  IF objs[x].virality_score >= objs[existing].virality_score
                 THEN Append(ListRemove(objs, unique, existing), x)
                 ELSE unique

\* One pass of the outer loop for the topic at position x; unique_topics is
\* held as positions into objs.  The inner loop stops at the first accepted
\* topic that is similar (break).
DedupOne(objs, unique, x, thr) ==
    LET hits == {j \in 1..Len(unique) : Similar(objs[x], objs[unique[j]], thr)}
    IN  IF hits = {} THEN Append(unique, x)
        ELSE LET existing == unique[CHOOSE j \in hits : \A h \in hits : j <= h]
             IN  IF objs[x].virality_score > objs[existing].virality_score
                 THEN Append(ListRemove(objs, unique, existing), x)
                 ELSE unique

RECURSIVE DedupFrom(_, _, _, _)
DedupFrom(objs, unique, x, thr) ==
    IF x > Len(objs) THEN unique
    ELSE DedupFrom(objs, DedupOne(objs, unique, x, thr), x + 1, thr)

\* The positions deduplicate_topics keeps, in the order of the returned list.
DedupPositions(topics, thr) == DedupFrom(topics, <<>>, 1, thr)

deduplicate_topics(topics, thr) == Pick(topics, DedupPositions(topics, thr))

(***************************************************************************)
(* Inputs.  The topics the adapters hand over, and the clock readings.     *)
(***************************************************************************)
MaxBatch == 3

P1 == Topic("r1", <<"AI", "Marketing", "Tools", "for", "2025">>, "ai_marketing",
            500, 100, 50, 0, 0, <<"ai", "marketing">>, Some(100))
P2 == Topic("h1", <<"Best", "AI", "Marketing", "Tools", "2025">>, "ai_marketing",
            120, 40, 0, 6000, 0, <<"ai">>, None)
P3 == Topic("r2", <<"SEO", "Guide", "Free">>, "seo",
            1000000, 0, 0, 0, 0, <<>>, Some(30))
P4 == Topic("h2", <<"New", "SEO", "Guide">>, "general",
            0, 0, 0, 0, 250, <<>>, None)
P5 == Topic("p1", <<"SEO", "Guide">>, "startup",
            0, 0, 0, 4000, 0, <<>>, Some(0))
P6 == Topic("p2", <<"ai", "marketing", "tools", "for", "2025">>, "general",
            10, 2, 0, 0, 0, <<>>, Some(100))
P7 == Topic("r3", <<"AI", "Growth", "Hack", "Free", "Tools", "Guide", "New", "Update", "2025">>,
            "growth_hacking", 3000, 1000, 400, 0, 150,
            <<"ai", "growth", "seo", "content", "sales">>, Some(100))

\* A stale topic without engagement, keyword or boosted category, whose
\* title lies within other titles.
P8 == Topic("h3", <<"SEO">>, "general", 0, 0, 0, 0, 0, <<>>, Some(0))

Pool == {P1, P2, P3, P4, P5, P6, P7}

\* The batches handed to curate_topics and score_topic.
CuratePool == Pool \ {P6}

\* The batches handed to score_topic directly.
ScorePool == {P2, P3, P4, P5, P8}

ClockReadings == {101, 172, 173}

LimitArgs == {0, 2, 25}
CategoryArgs == {None, Some(<<>>), Some(<<"ai_marketing", "seo">>)}
MinScoreArgs == {None, Some(6000)}

Sources == {"reddit", "hacker_news", "product_hunt", "twitter"}

VARIABLES
    pc,             \* where the modelled call stands
    now,            \* datetime.now(timezone.utc), in hours
    topics,         \* the caller's list of Topic objects
    args,           \* the arguments of the modelled call
    ret,            \* the values returned so far, in call order
    unique_topics,  \* deduplicate_topics: the accepted list, as positions
    cursor,         \* deduplicate_topics: the next input position
    calls,          \* score_topic: the calls made so far
    tasks,          \* research_trending: the fetch tasks handed to gather
    finished,       \* research_trending: the tasks in completion order
    scrapers,       \* self._scrapers, with the state of each HTTP session
    session,        \* self._session
    runs            \* the calls made on one researcher that may overlap

vars == <<pc, now, topics, args, ret, unique_topics, cursor, calls,
          tasks, finished, scrapers, session, runs>>

\* A freshly constructed ViralContentResearcher with no call in progress.
ResearcherIdle ==
    /\ tasks = <<>>
    /\ finished = <<>>
    /\ scrapers = [s \in Sources |-> "absent"]
    /\ session = None
    /\ runs = <<>>

orch == <<tasks, finished, scrapers, session, runs>>

(***************************************************************************)
(* SpecCurate: one call of curate_topics on a batch.                       *)
(***************************************************************************)
InitCurate ==
    /\ pc = "curate"
    /\ now \in ClockReadings
    /\ topics \in SeqsUpTo(CuratePool, MaxBatch)
    /\ \E limit \in LimitArgs, categories \in CategoryArgs, min_score \in MinScoreArgs :
          args = [limit |-> limit, categories |-> categories, min_score |-> min_score]
    /\ ret = <<>>
    /\ unique_topics = <<>>
    /\ cursor = 0
    /\ calls = <<>>
    /\ ResearcherIdle

CurateCall ==
    /\ pc = "curate"
    /\ LET r == curate_topics(topics, args.limit, args.categories, args.min_score, now)
       IN  /\ topics' = r.objs
           /\ ret' = <<r.out>>
    /\ pc' = "curated"
    /\ UNCHANGED <<now, args, unique_topics, cursor, calls, orch>>

NextCurate == CurateCall

SpecCurate == InitCurate /\ [][NextCurate]_vars


\* The topics returned by the curate_topics call, as positions into topics.
Returned == IF pc = "curated" THEN Range(ret[1]) ELSE {}

\* min_score if min_score is not None else self.min_score, of the call.
EffectiveMinScore ==
    IF args.min_score # None THEN args.min_score[1] ELSE DefaultMinScore

FactorsBounded(t, batch, clock) ==
    /\ calculate_engagement_score(t) \in 0..5000
    /\ calculate_recency_score(t, clock) \in 0..100
    /\ calculate_relevance_score(t) \in 0..100
    /\ calculate_velocity_score(t, clock) \in 0..100
    /\ LET u == calculate_uniqueness_score(t, batch)
       IN  0 <= u[1] /\ u[1] <= 100 * u[2]

\* C1: every topic returned by curate_topics has 0 <= virality_score <= 100
\* (0..10000 hundredths); each of the five factors of every topic of the
\* batch lies in [0, 100] and the weights sum to 1.0 (100 hundredths), so no
\* clamp of the weighted sum is needed.
C1_BoundedScore ==
    /\ WEIGHTS.engagement + WEIGHTS.recency + WEIGHTS.relevance
         + WEIGHTS.velocity + WEIGHTS.uniqueness = 100
    /\ \A i \in 1..Len(topics) : FactorsBounded(topics[i], Some(topics), now)
    /\ \A i \in Returned : topics[i].virality_score \in 0..10000

\* A returned topic reaches the upper end, 100.0, with every factor at its cap.
C1_Witness ==
    \E i \in Returned :
        /\ topics[i].virality_score = 10000
        /\ topics[i].trending_velocity > 100
        /\ topics[i].score > 2000

PassesAge(t, clock) ==
    t.published_at = None \/ clock - t.published_at[1] <= max_age_hours

\* C5 as stated: every returned topic has its category in categories
\* whenever categories is given (not None), virality_score >= min_score
\* (the instance default when min_score is None), and no publish timestamp
\* or age <= max_age_hours.
C5_FiltersAsStated ==
    \A i \in Returned :
        /\ args.categories # None => topics[i].category \in Range(args.categories[1])
        /\ topics[i].virality_score >= EffectiveMinScore
        /\ PassesAge(topics[i], now)

\* C5 amended: the category filter applies whenever categories is given and
\* non-empty; an empty list, like None, filters nothing.
C5_Filters ==
    \A i \in Returned :
        /\ (args.categories # None /\ args.categories # Some(<<>>))
              => topics[i].category \in Range(args.categories[1])
        /\ topics[i].virality_score >= EffectiveMinScore
        /\ PassesAge(topics[i], now)

\* A call with a non-empty category list returns a topic and has dropped one
\* topic for its category, and one for its age.
C5_Witness ==
    /\ Returned # {}
    /\ args.categories # None /\ args.categories # Some(<<>>)
    /\ \E j \in 1..Len(topics) :
          j \notin Returned /\ topics[j].category \notin Range(args.categories[1])
    /\ \E j \in 1..Len(topics) :
          /\ j \notin Returned /\ ~PassesAge(topics[j], now)
          /\ topics[j].category \in Range(args.categories[1])

\* The topics of the batch that pass the three filters, by position.
PassAll ==
    {i \in 1..Len(topics) :
        /\ (args.categories # None /\ args.categories # Some(<<>>))
              => topics[i].category \in Range(args.categories[1])
        /\ PassesAge(topics[i], now)
        /\ topics[i].virality_score >= EffectiveMinScore}

\* i is ranked ahead of j by a stable descending sort on virality_score.
Ahead(i, j) ==
    \/ topics[i].virality_score > topics[j].virality_score
    \/ topics[i].virality_score = topics[j].virality_score /\ i < j

\* C6: for limit >= 0 the returned list is the first `limit` elements of the
\* stable descending sort by virality_score of the topics passing all
\* filters: length min(limit, number passing), non-increasing scores, equal
\* scores in input order, and nothing left out ranks ahead of anything kept.
C6_SortedTruncated ==
    (pc = "curated" /\ args.limit >= 0) =>
        LET out == ret[1]
        IN  /\ Len(out) = Min(args.limit, Cardinality(PassAll))
            /\ Range(out) \subseteq PassAll
            /\ \A a, b \in 1..Len(out) : a < b => Ahead(out[a], out[b])
            /\ \A j \in PassAll \ Range(out) : \A a \in 1..Len(out) : Ahead(out[a], j)

\* Truncation cut a passing topic that stood earlier in the input than a
\* returned one, and two returned topics tie.
C6_Witness ==
    /\ pc = "curated" /\ args.limit >= 2
    /\ Cardinality(PassAll) > args.limit
    /\ \E a, b \in 1..Len(ret[1]) :
          a < b /\ topics[ret[1][a]].virality_score = topics[ret[1][b]].virality_score
    /\ \E j \in PassAll \ Range(ret[1]) : \E a \in 1..Len(ret[1]) : j < ret[1][a]

\* The positions of the batch that survive the category and the age filter
\* of a call with the given list.
Kept(list) ==
    AgeFilter(list, CategoryFilter(list, [i \in 1..Len(list) |-> i], args.categories), now)

RemoveAt(s, k) == SubSeq(s, 1, k - 1) \o SubSeq(s, k + 1, Len(s))

\* The same call on another input list gives the surviving topics the scores
\* they have now and returns the list returned now.
SameOutcome(list) ==
    LET r == curate_topics(list, args.limit, args.categories, args.min_score, now)
    IN  /\ Pick(r.objs, Kept(list)) = Pick(topics, Kept(topics))
        /\ CuratedList(r) = Pick(topics, ret[1])

\* C22: the uniqueness comparison set of curate_topics is the batch that
\* survived the category and age filters: the call on the input without one
\* of the topics these filters drop (the list that topic was added to, or
\* is removed from) gives every surviving topic the same virality_score and
\* returns the same list.
C22_FilteredBatch ==
    pc = "curated" =>
        \A k \in (1..Len(topics)) \ Range(Kept(topics)) :
            SameOutcome(RemoveAt(topics, k))

\* A call returned a topic, and dropped for its age or its category a topic
\* that shares a title word with the returned one and has another id.
C22_Witness ==
    /\ pc = "curated"
    /\ \E i \in Range(ret[1]) : \E k \in (1..Len(topics)) \ Range(Kept(topics)) :
          /\ topics[k].id # topics[i].id
          /\ Common(topics[k], topics[i]) > 0

\* The weighted sum of five factor values in hundredths, engagement in
\* fiftieths and uniqueness as <<numerator, denominator>>.
Weighted(e, r, rel, v, u) ==
    RoundHalfEven(WEIGHTS.engagement * e * u[2]
                    + 50 * u[2] * (WEIGHTS.recency * r + WEIGHTS.relevance * rel
                                   + WEIGHTS.velocity * v)
                    + 50 * WEIGHTS.uniqueness * u[1],
                  50 * u[2])

\* C24: missing signals are scored by defaults: a topic without publish
\* time passes the age filter and is scored with recency 30 and, when its
\* trending_velocity is 0, velocity 40; a topic with score, comments and
\* shares all 0 is scored with engagement 0; an explicit trending_velocity
\* above 0 is used as min(trending_velocity, 100); and every topic that
\* reaches the scoring loop gets a score in [0, 100].
C24_Defaults ==
    pc = "curated" =>
        \A i \in 1..Len(topics) :
            LET t == topics[i]
                undated == t.published_at = None
                e == IF t.score = 0 /\ t.comments = 0 /\ t.shares = 0 THEN 0
                     ELSE calculate_engagement_score(t)
                r == IF undated THEN 30 ELSE calculate_recency_score(t, now)
                v == IF t.trending_velocity > 0 THEN Min(t.trending_velocity, 100)
                     ELSE IF undated THEN 40
                     ELSE calculate_velocity_score(t, now)
                u == calculate_uniqueness_score(t, Some(Pick(topics, Kept(topics))))
            IN  /\ undated => i \in Range(AgeFilter(topics, [j \in 1..Len(topics) |-> j], now))
                /\ i \in Range(Kept(topics)) =>
                       /\ t.virality_score = Weighted(e, r, calculate_relevance_score(t), v, u)
                       /\ t.virality_score \in 0..10000

\* One call scored a topic without publish time and without velocity, one
\* without publish time whose explicit velocity is above 100, and one with
\* no engagement at all.
C24_Witness ==
    /\ pc = "curated"
    /\ \E i \in Range(Kept(topics)) :
          topics[i].published_at = None /\ topics[i].trending_velocity = 0
    /\ \E i \in Range(Kept(topics)) :
          topics[i].published_at = None /\ topics[i].trending_velocity > 100
    /\ \E i \in Range(Kept(topics)) :
          topics[i].score = 0 /\ topics[i].comments = 0 /\ topics[i].shares = 0

\* C25 as stated: curate_topics called with categories = [] drops every
\* topic and returns the empty list.
C25_EmptyDropsAll ==
    (pc = "curated" /\ args.categories = Some(<<>>)) => ret[1] = <<>>

\* C25 amended: curate_topics called with categories = [] filters nothing
\* by category: it scores the topics and returns the list exactly as the
\* same call with categories = None does.
C25_EmptyIsNone ==
    (pc = "curated" /\ args.categories = Some(<<>>)) =>
        LET r == curate_topics(topics, args.limit, None, args.min_score, now)
        IN  r.out = ret[1] /\ r.objs = topics

\* A call with categories = [] returned topics of two categories.
C25_Witness ==
    /\ pc = "curated" /\ args.categories = Some(<<>>)
    /\ \E i, j \in Range(ret[1]) : topics[i].category # topics[j].category


(***************************************************************************)
(* SpecScore: calls of score_topic on the topics of one batch while the    *)
(* clock runs.                                                             *)
(***************************************************************************)
MaxCalls == 2

InitScore ==
    /\ pc = "score"
    /\ now \in ClockReadings
    /\ topics \in SeqsUpTo(ScorePool, MaxBatch) \ {<<>>}
    /\ args = [limit |-> 25, categories |-> None, min_score |-> None]
    /\ ret = <<>>
    /\ unique_topics = <<>>
    /\ cursor = 0
    /\ calls = <<>>
    /\ ResearcherIdle

\* self.score_topic(topic, topics) for the topic at position i.
ScoreCall(i) ==
    /\ pc = "score"
    /\ Len(calls) < MaxCalls
    /\ calls' = Append(calls, [clock |-> now, topic |-> topics[i], batch |-> topics,
                               score |-> score_topic(topics[i], Some(topics), now)])
    /\ UNCHANGED <<pc, now, topics, args, ret, unique_topics, cursor, orch>>

\* Time passes.
Tick ==
    /\ \E c \in ClockReadings : c > now /\ now' = c
    /\ UNCHANGED <<pc, topics, args, ret, unique_topics, cursor, calls, orch>>

NextScore ==
    \/ \E i \in 1..Len(topics) : ScoreCall(i)
    \/ Tick

SpecScore == InitScore /\ [][NextScore]_vars

\* C10 as stated: two calls of score_topic on an identical Topic and an
\* identical comparison batch return the identical score, whatever happens
\* between them.
C10_Deterministic ==
    \A a, b \in 1..Len(calls) :
        (calls[a].topic = calls[b].topic /\ calls[a].batch = calls[b].batch)
            => calls[a].score = calls[b].score

\* C10 amended: the score depends on the topic, the batch and the clock
\* reading: two calls on an identical Topic and batch return the identical
\* score when they read the same clock, and at any two clock readings when
\* the topic has no publish time.
C10_DeterministicGivenClock ==
    \A a, b \in 1..Len(calls) :
        (/\ calls[a].topic = calls[b].topic
         /\ calls[a].batch = calls[b].batch
         /\ \/ calls[a].clock = calls[b].clock
            \/ calls[a].topic.published_at = None)
            => calls[a].score = calls[b].score

\* Two calls on the same topic without publish time, at different clock
\* readings, and two calls on a dated topic at the same reading.
C10_Witness ==
    /\ Len(calls) = 2
    /\ calls[1].topic = calls[2].topic
    /\ calls[1].topic.published_at = None
    /\ calls[1].clock < calls[2].clock


\* max(100 - J*100, 10) is the value num/den, for J the largest Jaccard
\* similarity of batch[i] with the entries at the other positions.
IsStatedUniqueness(batch, i, num, den) ==
    LET others == (1..Len(batch)) \ {i}
        \* 100 - J_j*100 = 100 * (u - c) / u for entry j
        atLeast10(j) == IF 10 * (Union(batch[i], batch[j]) - Common(batch[i], batch[j]))
                              >= Union(batch[i], batch[j])
                        THEN <<100 * (Union(batch[i], batch[j]) - Common(batch[i], batch[j])),
                               Union(batch[i], batch[j])>>
                        ELSE <<10, 1>>
    IN  IF others = {} THEN num = 100 * den
        ELSE /\ \E j \in others : num * atLeast10(j)[2] = atLeast10(j)[1] * den
             /\ \A j \in others : num * atLeast10(j)[2] <= atLeast10(j)[1] * den

\* C21 as stated: the uniqueness factor of a scored topic is
\* max(100 - J*100, 10), J the largest Jaccard similarity of its title with
\* the title of every other entry of the batch, whatever the ids.
C21_UniquenessAsStated ==
    \A k \in 1..Len(calls) :
        \A i \in 1..Len(calls[k].batch) :
            calls[k].batch[i] = calls[k].topic =>
                LET u == calculate_uniqueness_score(calls[k].topic, Some(calls[k].batch))
                IN  \E j \in {x \in 1..Len(calls[k].batch) : calls[k].batch[x] = calls[k].topic} :
                        IsStatedUniqueness(calls[k].batch, j, u[1], u[2])

\* C29: score_topic of a topic whose trending_velocity is 0 is never below
\* 19 (1900 hundredths): engagement >= 0, recency >= 10, relevance >= 50,
\* velocity >= 20 and uniqueness >= 10, weighted 0.25, 0.20, 0.25, 0.15 and
\* 0.15; so a min_score of 19 or less does not drop the topic.
C29_ScoreFloor ==
    \A k \in 1..Len(calls) :
        LET t == calls[k].topic
            u == calculate_uniqueness_score(t, Some(calls[k].batch))
            scored == <<[t EXCEPT !.virality_score = calls[k].score]>>
        IN  t.trending_velocity = 0 =>
                /\ calculate_engagement_score(t) >= 0
                /\ calculate_recency_score(t, calls[k].clock) >= 10
                /\ calculate_relevance_score(t) >= 50
                /\ calculate_velocity_score(t, calls[k].clock) >= 20
                /\ u[1] >= 10 * u[2]
                /\ calls[k].score >= 1900
                /\ MinScoreFilter(scored, <<1>>, 1900) = <<1>>

\* A call returned exactly 19.0: a stale topic without engagement or
\* keyword whose title words all occur in another title of the batch.
C29_Witness ==
    \E k \in 1..Len(calls) :
        /\ calls[k].topic.trending_velocity = 0
        /\ calls[k].score = 1900
        /\ Len(calls[k].batch) > 1


(***************************************************************************)
(* SpecDedup: deduplicate_topics on a batch whose topics carry the         *)
(* virality_score their adapter gave them, loop pass by loop pass, and a   *)
(* second call on the returned list.                                       *)
(***************************************************************************)
VScores == {0, 4000}

DedupPool ==
    {[t EXCEPT !.virality_score = v] : t \in Pool \ {P7}, v \in VScores}

ThresholdArgs == {DefaultThreshold, <<1, 2>>}

InitDedup ==
    /\ pc = "dedup"
    /\ now \in {101}
    /\ topics \in SeqsUpTo(DedupPool, MaxBatch)
    /\ \E thr \in ThresholdArgs : args = [similarity_threshold |-> thr]
    /\ ret = <<>>
    /\ unique_topics = <<>>
    /\ cursor = 1
    /\ calls = <<>>
    /\ ResearcherIdle

\* for topic in topics: one pass.
DedupStep ==
    /\ pc = "dedup"
    /\ cursor <= Len(topics)
    /\ unique_topics' = DedupOne(topics, unique_topics, cursor, args.similarity_threshold)
    /\ cursor' = cursor + 1
    /\ UNCHANGED <<pc, now, topics, args, ret, calls, orch>>

\* return unique_topics
DedupReturn ==
    /\ pc = "dedup"
    /\ cursor > Len(topics)
    /\ ret' = Append(ret, Pick(topics, unique_topics))
    /\ pc' = "deduped"
    /\ UNCHANGED <<now, topics, args, unique_topics, cursor, calls, orch>>

\* The caller hands the returned list to deduplicate_topics again.
DedupAgain ==
    /\ pc = "deduped"
    /\ ret' = Append(ret, deduplicate_topics(ret[1], args.similarity_threshold))
    /\ pc' = "deduped_again"
    /\ UNCHANGED <<now, topics, args, unique_topics, cursor, calls, orch>>

NextDedup == DedupStep \/ DedupReturn \/ DedupAgain

SpecDedup == InitDedup /\ [][NextDedup]_vars

\* C7: deduplicate_topics(deduplicate_topics(X)) = deduplicate_topics(X).
C7_Idempotent == pc = "deduped_again" => ret[2] = ret[1]

\* C8: no two distinct topics of the returned list have title-token Jaccard
\* similarity >= similarity_threshold.
C8_NoSimilarSurvivors ==
    Len(ret) >= 1 =>
        \A i, j \in 1..Len(ret[1]) :
            i < j => ~Similar(ret[1][i], ret[1][j], args.similarity_threshold)

\* The pass for the topic at position cursor.
IsDedupPass == pc = "dedup" /\ cursor <= Len(topics) /\ cursor' = cursor + 1

\* Of the new topic x and the accepted topic e exactly one is in the accepted
\* list after the pass: x when its virality_score is strictly higher, else e.
ResolvedByScore(x, e) ==
    IF topics[x].virality_score > topics[e].virality_score
    THEN x \in Range(unique_topics') /\ e \notin Range(unique_topics')
    ELSE e \in Range(unique_topics') /\ x \notin Range(unique_topics')

\* The accepted positions whose topic is similar to the topic at cursor.
SimilarAccepted ==
    {j \in 1..Len(unique_topics) :
        Similar(topics[cursor], topics[unique_topics[j]], args.similarity_threshold)}

\* A batch of the two titles of the scenario, in either order.
ScenarioBatch ==
    /\ Len(topics) = 2
    /\ {topics[1].title, topics[2].title} = {P1.title, P2.title}

\* The scenario batch deduplicates to one record, the higher-scored of the
\* two, the first-seen one on a tie.
ScenarioResolved ==
    (pc = "deduped" /\ ScenarioBatch) =>
        ret[1] = <<IF topics[2].virality_score > topics[1].virality_score
                   THEN topics[2] ELSE topics[1]>>

MaxFetch == 2
FetchLimit == 50

\* self.sources, as given to the constructor.
self_sources == <<"reddit", "hacker_news", "product_hunt">>

\* The sources _get_scraper builds a scraper for.
Supported == {"reddit", "google_trends", "hacker_news", "rss_feed", "product_hunt"}

\* The topics a source's adapter can hand over.
SourcePool(source) ==
    CASE source = "reddit" -> {P1, P3}
      [] source = "hacker_news" -> {P2, P4}
      [] source = "product_hunt" -> {P5}
      [] OTHER -> {}

\* What fetch_trending(limit) of a source can return: up to limit topics.
AdapterOutputs(source, limit) ==
    {l \in SeqsUpTo(SourcePool(source), MaxFetch) : Len(l) <= limit}

\* The sources argument: absent, a reordering, a list with a source no
\* scraper exists for, and a list naming one source twice.
SourceArgs ==
    {None,
     Some(<<"hacker_news", "reddit">>),
     Some(<<"twitter", "product_hunt">>),
     Some(<<"reddit", "reddit">>)}

ResearchLimitArgs == {1, 100}
ResearchCategoryArgs == {None}
ResearchMinScoreArgs == {3000}

NoResult == [kind |-> "none", val |-> <<>>]

Init ==
    /\ pc = "idle"
    /\ now = 101
    /\ topics = <<>>
    /\ args = [limit |-> 25, categories |-> None, sources |-> None, min_score |-> 3000]
    /\ ret = <<>>
    /\ unique_topics = <<>>
    /\ cursor = 0
    /\ calls = <<>>
    /\ ResearcherIdle

\* sources or self.sources
SourcesToQuery(sources) ==
    IF sources # None /\ sources # Some(<<>>) THEN sources[1] ELSE self_sources

\* Mutant: the session is stamped completed when it is constructed.
ResearchSession_completed_at_start(sources_queried, filters_applied, clock) ==
    [started_at |-> clock,
     completed_at |-> Some(clock),
     topics_discovered |-> 0,
     topics_curated |-> 0,
     sources_queried |-> sources_queried,
     filters_applied |-> filters_applied]

\* ResearchSession(sources_queried=..., filters_applied=...): the other
\* fields take their defaults (models.py 104-115).
ResearchSession(sources_queried, filters_applied, clock) ==
    [started_at |-> clock,
     completed_at |-> None,
     topics_discovered |-> 0,
     topics_curated |-> 0,
     sources_queried |-> sources_queried,
     filters_applied |-> filters_applied]

\* Mutant: each task asks for twice the final limit.
RequestedLimit_twice(limit) == 2 * limit

\* self._fetch_from_source(source, limit=50): the number of items asked of
\* each source, whatever the final limit.
RequestedLimit(limit) == FetchLimit

\* research_trending up to `await asyncio.gather(...)`: the session is
\* created and one fetch task per source is handed to gather.
Start(limit, categories, sources, min_score) ==
    /\ pc = "idle"
    /\ args' = [limit |-> limit, categories |-> categories,
                sources |-> sources, min_score |-> min_score]
    /\ session' = Some(ResearchSession(
                        SourcesToQuery(sources),
                        [categories |-> IF categories # None /\ categories # Some(<<>>)
                                        THEN categories[1] ELSE <<>>,
                         min_score |-> min_score],
                        now))
    /\ tasks' = [i \in 1..Len(SourcesToQuery(sources)) |->
                    [source |-> SourcesToQuery(sources)[i], limit |-> RequestedLimit(limit),
                     st |-> "created", invoked |-> 0,
                     fetched |-> None, result |-> NoResult]]
    /\ pc' = "gather"
    /\ UNCHANGED <<runs, now, topics, ret, unique_topics, cursor, calls, finished, scrapers>>

\* _fetch_from_source to its first suspension.  The event loop starts the
\* tasks in the order gather created them.  _get_scraper builds the scraper
\* on first use; for a source it knows none for, the task returns [] at
\* once.  async with scraper: __aenter__ opens the HTTP session.
TaskRun(i) ==
    /\ pc = "gather"
    /\ tasks[i].st = "created"
    /\ \A j \in 1..(i - 1) : tasks[j].st # "created"
    /\ IF tasks[i].source \in Supported
       THEN /\ scrapers' = [scrapers EXCEPT ![tasks[i].source] = "open"]
            /\ tasks' = [tasks EXCEPT ![i].st = "running",
                                      ![i].invoked = tasks[i].invoked + 1]
            /\ UNCHANGED finished
       ELSE /\ tasks' = [tasks EXCEPT ![i].st = "done",
                                      ![i].fetched = Some(<<>>),
                                      ![i].result = [kind |-> "list", val |-> <<>>]]
            /\ finished' = Append(finished, i)
            /\ UNCHANGED scrapers
    /\ UNCHANGED <<runs, pc, now, topics, args, ret, unique_topics, cursor, calls, session>>

\* What _fetch_from_source hands to gather for an outcome of fetch_trending:
\* the list it returned; [] for an Exception (caught, printed); the exception
\* itself for a BaseException that is no Exception (it escapes the except
\* clause, and gather(return_exceptions=True) keeps it as the result).
FetchResult(outcome) ==
    CASE outcome.kind = "return" -> [kind |-> "list", val |-> outcome.val]
      [] outcome.kind = "Exception" -> [kind |-> "list", val |-> <<>>]
      [] OTHER -> [kind |-> "exception", val |-> <<>>]

FetchOutcomes(source, limit) ==
    {[kind |-> "return", val |-> l] : l \in AdapterOutputs(source, limit)}
        \cup {[kind |-> "Exception", val |-> <<>>], [kind |-> "BaseException", val |-> <<>>]}

\* A running fetch issues a request: _fetch / _fetch_html take the scraper's
\* HTTP session from get_session, which opens a new one when the scraper has
\* none or a closed one (base.py 33-41, 79-80).
TaskRequest(i) ==
    /\ pc = "gather"
    /\ tasks[i].st = "running"
    /\ scrapers[tasks[i].source] # "open"
    /\ scrapers' = [scrapers EXCEPT ![tasks[i].source] = "open"]
    /\ UNCHANGED <<runs, pc, now, topics, args, ret, unique_topics, cursor, calls,
                   tasks, finished, session>>

\* Mutant: the HTTP session is closed only when the fetch returned.
AfterExit_open_on_error(outcome) ==
    IF outcome.kind = "return" THEN "closed" ELSE "open"

\* The scraper's HTTP session after `async with scraper:` is left: __aexit__
\* closes it whether the body returned or raised (base.py 43-46, 140-141).
AfterExit(outcome) == "closed"

\* Mutant: a fetch that raised an Exception is run again.
TaskStateAfter_retry(outcome) ==
    IF outcome.kind = "Exception" THEN "created" ELSE "done"

\* The task is over whatever the outcome: _fetch_from_source returns from
\* the try block or from the except clause, and nothing calls it again.
TaskStateAfter(outcome) == "done"

\* fetch_trending returns or raises; __aexit__ closes the HTTP session
\* either way.
TaskReturn(i, outcome) ==
    /\ pc = "gather"
    /\ tasks[i].st = "running"
    /\ tasks' = [tasks EXCEPT ![i].st = TaskStateAfter(outcome),
                              ![i].fetched = IF outcome.kind = "return"
                                             THEN Some(outcome.val) ELSE None,
                              ![i].result = FetchResult(outcome)]
    /\ scrapers' = [scrapers EXCEPT ![tasks[i].source] = AfterExit(outcome)]
    /\ finished' = Append(finished, i)
    /\ UNCHANGED <<runs, pc, now, topics, args, ret, unique_topics, cursor, calls, session>>

\* Mutant: gather hands control back as soon as one task is done
\* (asyncio.wait(..., return_when=FIRST_COMPLETED)).
GatherDone_first_completed(ts) == \E i \in 1..Len(ts) : ts[i].st = "done"

\* Mutant: gather without return_exceptions: an exception that escapes a
\* task is raised out of the await, and the statements after it never run.
GatherDone_propagate(ts) ==
    /\ \A i \in 1..Len(ts) : ts[i].st = "done"
    /\ \A i \in 1..Len(ts) : ts[i].result.kind # "exception"

\* await asyncio.gather(*tasks, return_exceptions=True) resumes when every
\* task is done.
GatherDone(ts) == \A i \in 1..Len(ts) : ts[i].st = "done"

\* Mutant: the results come in the order the tasks completed
\* (asyncio.as_completed).
GatherResults_as_completed(ts, order) ==
    [i \in 1..Len(order) |-> ts[order[i]].result]

\* The list gather returns: one result per task, in the order of the tasks,
\* whatever the order they completed in.
GatherResults(ts, order) == [i \in 1..Len(ts) |-> ts[i].result]

\* Mutant: the loop over the results stops at the first result that is no
\* list.
RECURSIVE MergeResults_stop_at_failure(_)
MergeResults_stop_at_failure(results) ==
    IF results = <<>> \/ results[1].kind # "list" THEN <<>>
    ELSE results[1].val \o MergeResults_stop_at_failure(Tail(results))

\* for result in results: if isinstance(result, list): all_topics.extend(result)
RECURSIVE MergeResults(_)
MergeResults(results) ==
    IF results = <<>> THEN <<>>
    ELSE (IF results[1].kind = "list" THEN results[1].val ELSE <<>>)
            \o MergeResults(Tail(results))

\* Mutant: the count is taken after deduplication.
DiscoveredCount_after_dedup(all_topics) ==
    Len(DedupPositions(all_topics, DefaultThreshold))

\* len(all_topics), taken before deduplication.
DiscoveredCount(all_topics) == Len(all_topics)

\* gather has returned: the results are merged and counted.
Merge ==
    /\ pc = "gather"
    /\ GatherDone(tasks)
    /\ topics' = MergeResults(GatherResults(tasks, finished))
    /\ session' = Some([session[1] EXCEPT !.topics_discovered = DiscoveredCount(topics')])
    /\ pc' = "merged"
    /\ UNCHANGED <<runs, now, args, ret, unique_topics, cursor, calls, tasks, finished, scrapers>>

\* Deduplicate, curate and score, record the curated count.
Finish ==
    /\ pc = "merged"
    /\ LET kept == DedupPositions(topics, DefaultThreshold)
           r    == curate_topics(Pick(topics, kept), args.limit, args.categories,
                                 Some(args.min_score), now)
           curated == CuratedList(r)
       IN  /\ unique_topics' = kept
           /\ topics' = [p \in 1..Len(topics) |->
                            IF \E j \in 1..Len(kept) : kept[j] = p
                            THEN r.objs[CHOOSE j \in 1..Len(kept) : kept[j] = p]
                            ELSE topics[p]]
           /\ ret' = <<curated>>
           /\ session' = Some([session[1] EXCEPT !.topics_curated = Len(curated)])
    /\ pc' = "curated"
    /\ UNCHANGED <<runs, now, args, cursor, calls, tasks, finished, scrapers>>

\* self._session.completed_at = datetime.now(timezone.utc); return curated
Complete ==
    /\ pc = "curated"
    /\ session' = Some([session[1] EXCEPT !.completed_at = Some(now)])
    /\ pc' = "done"
    /\ UNCHANGED <<runs, now, topics, args, ret, unique_topics, cursor, calls,
                   tasks, finished, scrapers>>

Next ==
    \/ \E limit \in ResearchLimitArgs, categories \in ResearchCategoryArgs,
          sources \in SourceArgs, min_score \in ResearchMinScoreArgs :
              Start(limit, categories, sources, min_score)
    \/ \E i \in 1..Len(tasks) : TaskRun(i)
    \/ \E i \in 1..Len(tasks) :
          \E outcome \in FetchOutcomes(tasks[i].source, tasks[i].limit) :
              TaskReturn(i, outcome)
    \/ \E i \in 1..Len(tasks) : TaskRequest(i)
    \/ Merge
    \/ Finish
    \/ Complete

Spec == Init /\ [][Next]_vars

\* The positions of the merged list that deduplicate_topics kept and that
\* pass the category and the age filter of the run.
Scorable(list, kept) ==
    {kept[j] : j \in Range(Kept(Pick(list, kept)))}

\* a and b agree on every field but virality_score.
SameButScore(a, b) == [a EXCEPT !.virality_score = b.virality_score] = b

\* C23: virality_score is the only Topic field that deduplicate_topics and
\* curate_topics write: across the step that runs both, the caller's list
\* keeps its length and order, every topic keeps every other field, and the
\* topics that deduplication removed or the category or age filter dropped
\* keep their virality_score as well.
C23_OnlyViralityScore ==
    [][(pc = "merged" /\ pc' = "curated") =>
          /\ Len(topics') = Len(topics)
          /\ \A p \in 1..Len(topics) :
                /\ SameButScore(topics[p], topics'[p])
                /\ p \notin Scorable(topics, unique_topics') => topics'[p] = topics[p]]_vars

\* After the step the merged list holds a topic that deduplication removed,
\* one that the age filter dropped with the score its adapter gave it, and
\* one that was scored and returned.
C23_Witness ==
    /\ pc = "curated"
    /\ \E p \in 1..Len(topics) : p \notin Range(unique_topics)
    /\ \E p \in Range(unique_topics) :
          ~PassesAge(topics[p], now) /\ topics[p].virality_score = 4000
    /\ \E p \in Range(unique_topics) : \E j \in 1..Len(ret[1]) : ret[1][j] = topics[p]

\* fetch_trending of task i returns or raises.
TaskReturns(i) ==
    /\ i \in 1..Len(tasks)
    /\ \E outcome \in FetchOutcomes(tasks[i].source, tasks[i].limit) : TaskReturn(i, outcome)

\* A step of the run that the event loop takes once it is ready: a task
\* that gather created is started, a started fetch returns or raises, the
\* coroutine of the run is resumed when gather is done, and it stamps the
\* session and returns.
RunStep ==
    \/ \E i \in 1..Len(tasks) : TaskRun(i)
    \/ \E i \in 1..Len(tasks) : TaskReturns(i)
    \/ Merge
    \/ Complete

\* The run of research_trending under an event loop that keeps running what
\* is ready, with fetches that all return or raise in the end.  The last
\* conjunct is WF_vars(Finish) by its enabling condition: Finish is enabled
\* exactly when pc = "merged", and it leaves that control point; the
\* coroutine runs deduplicate_topics and curate_topics without suspending.
SpecLive ==
    /\ Spec
    /\ WF_vars(RunStep)
    /\ []<>(pc # "merged")

\* C27: when every fetch task eventually returns or fails, a run of
\* research_trending that has started eventually sets completed_at on the
\* session and returns its list.
C27_RunCompletes ==
    (pc = "gather") ~> (pc = "done" /\ session[1].completed_at # None /\ Len(ret) = 1)

\* A run is complete although one of its fetches ended with an exception
\* that gather kept as its result, and another returned topics.
C27_Witness ==
    /\ pc = "done" /\ session[1].completed_at # None /\ Len(ret) = 1
    /\ \E i \in 1..Len(tasks) : tasks[i].result.kind = "exception"
    /\ \E i \in 1..Len(tasks) : tasks[i].fetched # None /\ tasks[i].fetched # Some(<<>>)

\* C28: after a completed run of research_trending the session has
\* topics_curated <= topics_discovered, topics_curated <= limit (for a limit
\* >= 0), and topics_curated equal to the length of the returned list.
C28_CuratedCount ==
    pc = "done" =>
        /\ session[1].topics_curated <= session[1].topics_discovered
        /\ args.limit >= 0 => session[1].topics_curated <= args.limit
        /\ session[1].topics_curated = Len(ret[1])

\* A completed run with limit 1 that returned one topic although more than
\* one topic was left after deduplication and reached the minimum score.
C28_Witness ==
    /\ pc = "done"
    /\ args.limit = 1
    /\ session[1].topics_curated = 1
    /\ session[1].topics_discovered > 2
    /\ Cardinality({j \in 1..Len(unique_topics) :
                       /\ PassesAge(topics[unique_topics[j]], now)
                       /\ topics[unique_topics[j]].virality_score >= args.min_score}) > 1

\* The tasks whose fetch_trending returned a list.
Succeeded == {i \in 1..Len(tasks) : tasks[i].fetched # None}

RECURSIVE SumFetched(_)
SumFetched(S) ==
    IF S = {} THEN 0
    ELSE LET i == CHOOSE x \in S : TRUE
         IN  Len(tasks[i].fetched[1]) + SumFetched(S \ {i})

CountIn(t, list) == Cardinality({p \in 1..Len(list) : list[p] = t})

RECURSIVE SumCount(_, _)
SumCount(t, S) ==
    IF S = {} THEN 0
    ELSE LET i == CHOOSE x \in S : TRUE
         IN  CountIn(t, tasks[i].fetched[1]) + SumCount(t, S \ {i})

\* C2: whatever subset of the fetches fails, the merged list holds exactly
\* the topics the succeeding sources returned, its count (and the recorded
\* topics_discovered) is the sum of their counts, and the run still returns a
\* list to its caller.
C2_FaultIsolation ==
    /\ pc = "merged" =>
          /\ Len(topics) = SumFetched(Succeeded)
          /\ \A t \in Pool : CountIn(t, topics) = SumCount(t, Succeeded)
    /\ pc \in {"merged", "curated", "done"} =>
          session[1].topics_discovered = SumFetched(Succeeded)
    /\ pc = "done" =>
          /\ Len(ret) = 1
          /\ \A k \in 1..Len(ret[1]) : \E p \in 1..Len(topics) : ret[1][k] = topics[p]

C2_Witness ==
    /\ pc = "done"
    /\ Len(tasks) = 3
    /\ tasks[2].fetched = None
    /\ tasks[1].fetched # None /\ tasks[3].fetched # None
    /\ Len(tasks[1].fetched[1]) = 2 /\ Len(tasks[3].fetched[1]) = 1
    /\ session[1].topics_discovered = 3

\* C3: merging, counting, deduplication and scoring happen only once every
\* launched fetch task has returned or failed; each task ran to its own end.
C3_JoinBarrier ==
    pc \in {"merged", "curated", "done"} =>
        /\ \A i \in 1..Len(tasks) : tasks[i].st = "done" /\ tasks[i].result.kind # "none"
        /\ Len(finished) = Len(tasks)
        /\ \A i \in 1..Len(tasks) : \E p \in 1..Len(finished) : finished[p] = i

C3_Witness ==
    /\ pc = "done"
    /\ Len(tasks) = 3
    /\ finished = <<3, 1, 2>>
    /\ tasks[1].fetched = None
    /\ unique_topics # <<>>

RECURSIVE ConcatFetched(_)
ConcatFetched(i) ==
    IF i = 0 THEN <<>>
    ELSE ConcatFetched(i - 1)
            \o (IF tasks[i].fetched # None THEN tasks[i].fetched[1] ELSE <<>>)

\* C4: the merged list is the lists the sources returned, one after the other
\* in the order of the source list, each in the order its source returned it,
\* whatever the order the fetch tasks completed in.
C4_MergeOrder ==
    pc = "merged" => topics = ConcatFetched(Len(tasks))

C4_Witness ==
    /\ pc = "merged"
    /\ finished = <<2, 1>>
    /\ tasks[1].fetched = Some(<<P4, P2>>)
    /\ tasks[2].fetched = Some(<<P3, P1>>)
    /\ topics = <<P4, P2, P3, P1>>


\* The session fields as they stand at each point of a run.
SessionAtPoint ==
    /\ pc = "idle" => session = None
    /\ pc # "idle" =>
          /\ session # None
          /\ session[1].sources_queried = SourcesToQuery(args.sources)
          /\ session[1].filters_applied.min_score = args.min_score
    /\ pc = "gather" =>
          /\ session[1].topics_discovered = 0
          /\ session[1].topics_curated = 0
    /\ pc = "merged" => session[1].topics_curated = 0
    /\ pc \in {"gather", "merged", "curated"} => session[1].completed_at = None
    /\ pc = "done" => session[1].completed_at # None
    /\ \A i \in 1..Len(tasks) : tasks[i].st # "created" => session # None

\* The session writes of a step, by the point of the run it is taken at.
SessionWritesInOrder ==
    /\ (session # None /\ session[1].completed_at # None) => session' = session
    /\ (session # None /\ session' # None) =>
          /\ session'[1].topics_discovered # session[1].topics_discovered
                => (pc = "gather" /\ pc' = "merged")
          /\ session'[1].topics_curated # session[1].topics_curated
                => (pc = "merged" /\ pc' = "curated")
          /\ session'[1].completed_at # session[1].completed_at
                => (pc = "curated" /\ pc' = "done")
          /\ session'[1].started_at = session[1].started_at
          /\ session'[1].sources_queried = session[1].sources_queried
          /\ session'[1].filters_applied = session[1].filters_applied
    /\ (session = None /\ session' # None) =>
          /\ pc = "idle" /\ pc' = "gather"
          /\ \A i \in 1..Len(tasks') : tasks'[i].st = "created"

\* C12: within one run the session is created (sources and filters set,
\* completed_at unset) before any fetch starts, topics_discovered is written
\* at the merge, topics_curated after the curation, completed_at last, and
\* once completed_at is set no field changes.
C12_SessionOrder == []SessionAtPoint /\ [][SessionWritesInOrder]_vars

C12_Witness ==
    /\ pc = "done"
    /\ session[1].completed_at = Some(now)
    /\ session[1].topics_discovered = 4
    /\ session[1].topics_curated = 2
    /\ session[1].sources_queried = <<"hacker_news", "reddit">>

\* C13: after the run, topics_discovered is the length of the merged list,
\* the sum of the counts of the sources that succeeded, whatever
\* deduplication removed afterwards.
C13_DiscoveredCount ==
    pc = "done" =>
        /\ session[1].topics_discovered = Len(topics)
        /\ session[1].topics_discovered = Len(ConcatFetched(Len(tasks)))
        /\ session[1].topics_discovered >= Len(unique_topics)

\* Deduplication removed two of four merged topics, one source failed.
C13_Witness ==
    /\ pc = "done"
    /\ Len(tasks) = 3
    /\ tasks[3].fetched = None
    /\ session[1].topics_discovered = 4
    /\ Len(unique_topics) = 2

\* C16 as stated: every fetch task requests strictly more items than the
\* final limit of the call.
C16_OverFetchAsStated ==
    pc # "idle" => \A i \in 1..Len(tasks) : tasks[i].limit > args.limit

\* C16 amended: every fetch task requests 50 items whatever the final
\* limit, which is more than the final limit exactly when that limit is
\* below 50.
C16_FixedFetchLimit ==
    pc # "idle" =>
        \A i \in 1..Len(tasks) :
            /\ tasks[i].limit = FetchLimit
            /\ (tasks[i].limit > args.limit) <=> (args.limit < FetchLimit)
            /\ tasks[i].fetched # None => Len(tasks[i].fetched[1]) <= FetchLimit

\* A run with limit=100, as research_category makes it, whose tasks ask for
\* 50 items each.
C16_Witness ==
    /\ pc = "done"
    /\ args.limit = 100
    /\ Len(tasks) = 3
    /\ \A i \in 1..Len(tasks) : tasks[i].limit = 50 /\ tasks[i].invoked = 1

\* C19 as stated: no two tasks of one fan-out use the same scraper (its HTTP
\* session, its rate-limit counter), and the HTTP session of a running
\* task's scraper is never closed by another task.
C19_NoSharedScraper ==
    /\ \A i, j \in 1..Len(tasks) :
          (i # j /\ tasks[i].st = "running" /\ tasks[j].st = "running")
              => tasks[i].source # tasks[j].source
    /\ \A i \in 1..Len(tasks) :
          tasks[i].st = "running" => scrapers[tasks[i].source] = "open"

(***************************************************************************)
(* SpecBrief: a topic with score=500, comments=100, shares=50, published   *)
(* one hour ago, in a boost category, with four high-value keywords in its *)
(* title, is scored within a batch (as curate_topics does, curator.py      *)
(* 239-240) or alone, and BriefGenerator._determine_urgency                *)
(* (brief_generator.py 178-187) classifies it.                             *)
(***************************************************************************)
ScenarioTitles ==
    {<<"Growth", "Hack", "Free", "Tools">>,
     <<"Growth", "Hack", "Free", "Tools", "Update", "2025">>}

ScenarioKeywords == {<<>>, <<"ai", "growth", "seo", "content", "sales">>}

ScenarioTopics ==
    {Topic("s1", title, category, 500, 100, 50, 0, 0, keywords, Some(100)) :
        title \in ScenarioTitles, category \in boost_categories,
        keywords \in ScenarioKeywords}

\* The high-value keywords found in the topic's text.
KeywordMatches(topic) ==
    {kw \in HIGH_VALUE_KEYWORDS : InText(kw, TextWords(topic))}

\* Mutant: the "trending_now" band starts at 70.
_determine_urgency_from_70(topic) ==
    IF topic.virality_score >= 7000 THEN "trending_now"
    ELSE IF topic.virality_score >= 6000 THEN "high"
    ELSE IF topic.virality_score >= 4000 THEN "medium"
    ELSE "low"

\* BriefGenerator._determine_urgency
_determine_urgency(topic) ==
    IF topic.virality_score >= 8000 THEN "trending_now"
    ELSE IF topic.virality_score >= 6000 THEN "high"
    ELSE IF topic.virality_score >= 4000 THEN "medium"
    ELSE "low"

InitBrief ==
    /\ pc = "scenario"
    /\ now = 101
    /\ \E t \in ScenarioTopics, others \in SeqsUpTo(Pool, MaxBatch - 1) :
          topics = <<t>> \o others
    /\ args = [limit |-> 25, categories |-> None, min_score |-> None]
    /\ ret = <<>>
    /\ unique_topics = <<>>
    /\ cursor = 0
    /\ calls = <<>>
    /\ ResearcherIdle

\* topic.virality_score = self.score_topic(topic, existing_topics), with the
\* batch or without one.
ScenarioScore(existing_topics) ==
    /\ pc = "scenario"
    /\ topics' = [topics EXCEPT ![1].virality_score =
                      score_topic(topics[1], existing_topics, now)]
    /\ calls' = Append(calls, [clock |-> now, topic |-> topics[1], batch |-> existing_topics,
                               score |-> topics'[1].virality_score])
    /\ pc' = "scored"
    /\ UNCHANGED <<now, args, ret, unique_topics, cursor, orch>>

\* urgency = self._determine_urgency(topic)
DetermineUrgency ==
    /\ pc = "scored"
    /\ ret' = <<_determine_urgency(topics[1])>>
    /\ pc' = "classified"
    /\ UNCHANGED <<now, topics, args, unique_topics, cursor, calls, orch>>

NextBrief ==
    \/ \E existing_topics \in {None, Some(topics)} : ScenarioScore(existing_topics)
    \/ DetermineUrgency

SpecBrief == InitBrief /\ [][NextBrief]_vars

\* The scenario topic, before it was scored.
ScenarioTopic == calls[1].topic

\* C11 as stated: the scenario topic has engagement of about 100, recency
\* 100, relevance >= 80, a high velocity, a final score >= 80, and is
\* classified "trending_now".
C11_ScenarioAsStated ==
    pc = "classified" =>
        /\ calculate_engagement_score(ScenarioTopic) >= 4500
        /\ calculate_recency_score(ScenarioTopic, now) = 100
        /\ calculate_relevance_score(ScenarioTopic) >= 80
        /\ calculate_velocity_score(ScenarioTopic, now) >= 80
        /\ topics[1].virality_score >= 8000
        /\ ret[1] = "trending_now"

\* C11 amended: the scenario topic has engagement 19 (10 + 4 + 5), recency
\* 100, relevance >= 80 and velocity 100; its final score lies between 61.25
\* and 79.75, below 80, and it is classified "high".
C11_Scenario ==
    pc = "classified" =>
        /\ Cardinality(KeywordMatches(ScenarioTopic)) = 4
        /\ calculate_engagement_score(ScenarioTopic) = 19 * 50
        /\ calculate_recency_score(ScenarioTopic, now) = 100
        /\ calculate_relevance_score(ScenarioTopic) >= 80
        /\ calculate_velocity_score(ScenarioTopic, now) = 100
        /\ topics[1].virality_score >= 6125
        /\ topics[1].virality_score <= 7975
        /\ ret[1] = "high"

\* The scenario topic at its highest score: relevance 100 and a batch no
\* title of which shares a word with it.
C11_Witness ==
    /\ pc = "classified"
    /\ Len(topics) = MaxBatch
    /\ calls[1].batch = Some(<<ScenarioTopic>> \o Tail(topics))
    /\ calculate_relevance_score(ScenarioTopic) = 100
    /\ topics[1].virality_score = 7975
    /\ ret[1] = "high"


(***************************************************************************)
(* SpecCalls: calls of research_trending and search on one                 *)
(* ViralContentResearcher, one after the other or overlapping (the second  *)
(* entered while the first is suspended in an await).  A call keeps its    *)
(* locals (sources_to_query, all_topics, tasks, results) in its own record *)
(* of runs; self._session and self._scrapers belong to the researcher.     *)
(* A ResearchSession carries in obj the number of the call that            *)
(* constructed it, which stands for the identity of the object.            *)
(***************************************************************************)
MaxRuns == 2
SearchLimit == 25
SearchMinScore == 2000
TrendingMinScore == 3000

RunIds == 1..MaxRuns

Kinds == {"research_trending", "search"}

\* The sources argument of a research_trending call and of a search call.
RunSourceArgs == {Some(<<"reddit">>), Some(<<"twitter", "hacker_news">>)}

SearchSourceArgs ==
    {Some(<<"hacker_news", "reddit">>), Some(<<"twitter", "reddit">>)}

\* The topics a source's adapter hands over in these calls.
RunPool(source) ==
    CASE source = "reddit" -> {P1}
      [] source = "hacker_news" -> {P2}
      [] OTHER -> {}

\* What fetch_trending(limit) or search(query, limit) of a source's adapter
\* can do: return up to limit topics, or raise.
RunOutcomes(source, limit) ==
    {[kind |-> "return", val |-> l] :
        l \in {x \in SeqsUpTo(RunPool(source), 1) : Len(x) <= limit}}
        \cup {[kind |-> "Exception", val |-> <<>>]}

IdleCall ==
    [kind |-> "none", pc |-> "idle", args |-> <<>>, tasks |-> <<>>,
     finished |-> <<>>, pos |-> 0, all_topics |-> <<>>, ret |-> None]

InitCalls ==
    /\ pc = "calls"
    /\ now = 101
    /\ topics = <<>>
    /\ args = <<>>
    /\ ret = <<>>
    /\ unique_topics = <<>>
    /\ cursor = 0
    /\ calls = <<>>
    /\ tasks = <<>>
    /\ finished = <<>>
    /\ scrapers = [s \in Sources |-> "absent"]
    /\ session = None
    /\ runs = [r \in RunIds |-> IdleCall]

\* The ResearchSession object constructed by call r.
SessionObject(r, fields) ==
    [f \in DOMAIN fields \cup {"obj"} |-> IF f = "obj" THEN r ELSE fields[f]]

\* One slot per source of the call: the fetch task of research_trending, the
\* loop iteration of search.
SourceSlots(sources, limit) ==
    [i \in 1..Len(SourcesToQuery(sources)) |->
        [source |-> SourcesToQuery(sources)[i], limit |-> limit,
         st |-> "created", invoked |-> 0, fetched |-> None, result |-> NoResult]]

\* Calls are numbered in the order they are entered.
MayEnter(r) ==
    /\ runs[r].pc = "idle"
    /\ \A q \in RunIds : q < r => runs[q].pc # "idle"

\* research_trending of call r up to `await asyncio.gather(...)`.
RunStart(r, limit, sources) ==
    /\ MayEnter(r)
    /\ session' = Some(SessionObject(r, ResearchSession(
                        SourcesToQuery(sources),
                        [categories |-> <<>>, min_score |-> TrendingMinScore],
                        now)))
    /\ runs' = [runs EXCEPT ![r] =
                  [IdleCall EXCEPT !.kind = "research_trending",
                                   !.pc = "gather",
                                   !.args = [limit |-> limit, categories |-> None,
                                             sources |-> sources,
                                             min_score |-> TrendingMinScore],
                                   !.tasks = SourceSlots(sources, RequestedLimit(limit))]]
    /\ UNCHANGED <<pc, now, topics, args, ret, unique_topics, cursor, calls,
                   tasks, finished, scrapers>>

\* A fetch task of call r runs to its first suspension.  The event loop
\* starts tasks in the order they were created: after the earlier tasks of
\* the call and after the tasks of the calls entered before it.
RunTaskRun(r, i) ==
    /\ runs[r].kind = "research_trending"
    /\ runs[r].pc = "gather"
    /\ runs[r].tasks[i].st = "created"
    /\ \A j \in 1..(i - 1) : runs[r].tasks[j].st # "created"
    /\ \A q \in RunIds : q < r =>
          \A j \in 1..Len(runs[q].tasks) : runs[q].tasks[j].st # "created"
    /\ IF runs[r].tasks[i].source \in Supported
       THEN /\ scrapers' = [scrapers EXCEPT ![runs[r].tasks[i].source] = "open"]
            /\ runs' = [runs EXCEPT ![r].tasks[i].st = "running",
                                    ![r].tasks[i].invoked = runs[r].tasks[i].invoked + 1]
       ELSE /\ runs' = [runs EXCEPT ![r].tasks[i].st = "done",
                                    ![r].tasks[i].fetched = Some(<<>>),
                                    ![r].tasks[i].result = [kind |-> "list", val |-> <<>>],
                                    ![r].finished = Append(runs[r].finished, i)]
            /\ UNCHANGED scrapers
    /\ UNCHANGED <<pc, now, topics, args, ret, unique_topics, cursor, calls,
                   tasks, finished, session>>

\* A running fetch or search of call r issues a request: get_session opens a
\* new HTTP session when the scraper's one was closed meanwhile.
RunRequest(r, i) ==
    /\ runs[r].tasks[i].st = "running"
    /\ scrapers[runs[r].tasks[i].source] # "open"
    /\ scrapers' = [scrapers EXCEPT ![runs[r].tasks[i].source] = "open"]
    /\ UNCHANGED <<pc, now, topics, args, ret, unique_topics, cursor, calls,
                   tasks, finished, session, runs>>

\* fetch_trending of a task of call r returns or raises; __aexit__ closes
\* the scraper's HTTP session.
RunTaskReturn(r, i, outcome) ==
    /\ runs[r].kind = "research_trending"
    /\ runs[r].pc = "gather"
    /\ runs[r].tasks[i].st = "running"
    /\ runs' = [runs EXCEPT ![r].tasks[i].st = TaskStateAfter(outcome),
                            ![r].tasks[i].fetched = IF outcome.kind = "return"
                                                    THEN Some(outcome.val) ELSE None,
                            ![r].tasks[i].result = FetchResult(outcome),
                            ![r].finished = Append(runs[r].finished, i)]
    /\ scrapers' = [scrapers EXCEPT ![runs[r].tasks[i].source] = AfterExit(outcome)]
    /\ UNCHANGED <<pc, now, topics, args, ret, unique_topics, cursor, calls,
                   tasks, finished, session>>

\* gather of call r has returned: merge, then
\* self._session.topics_discovered = len(all_topics).
RunMerge(r) ==
    /\ runs[r].kind = "research_trending"
    /\ runs[r].pc = "gather"
    /\ GatherDone(runs[r].tasks)
    /\ LET all_topics == MergeResults(GatherResults(runs[r].tasks, runs[r].finished))
       IN  /\ runs' = [runs EXCEPT ![r].all_topics = all_topics, ![r].pc = "merged"]
           /\ session' = Some([session[1] EXCEPT
                                  !.topics_discovered = DiscoveredCount(all_topics)])
    /\ UNCHANGED <<pc, now, topics, args, ret, unique_topics, cursor, calls,
                   tasks, finished, scrapers>>

\* Deduplication and curation of a call's all_topics.
RunCurated(r) ==
    CuratedList(curate_topics(deduplicate_topics(runs[r].all_topics, DefaultThreshold),
                              runs[r].args.limit, runs[r].args.categories,
                              Some(runs[r].args.min_score), now))

\* Call r deduplicates and curates, then
\* self._session.topics_curated = len(curated).
RunFinish(r) ==
    /\ runs[r].kind = "research_trending"
    /\ runs[r].pc = "merged"
    /\ runs' = [runs EXCEPT ![r].ret = Some(RunCurated(r)), ![r].pc = "curated"]
    /\ session' = Some([session[1] EXCEPT !.topics_curated = Len(RunCurated(r))])
    /\ UNCHANGED <<pc, now, topics, args, ret, unique_topics, cursor, calls,
                   tasks, finished, scrapers>>

\* self._session.completed_at = datetime.now(timezone.utc); return curated
RunComplete(r) ==
    /\ runs[r].kind = "research_trending"
    /\ runs[r].pc = "curated"
    /\ runs' = [runs EXCEPT ![r].pc = "done"]
    /\ session' = Some([session[1] EXCEPT !.completed_at = Some(now)])
    /\ UNCHANGED <<pc, now, topics, args, ret, unique_topics, cursor, calls,
                   tasks, finished, scrapers>>

\* Mutant: search starts a session of its own, as research_trending does.
SearchSession_created(current, r, sources) ==
    Some(SessionObject(r, ResearchSession(SourcesToQuery(sources),
                                          [min_score |-> SearchMinScore], now)))

\* self._session across the entry of search: search assigns nothing to it.
SearchSession(current, r, sources) == current

\* search of call r up to its loop over the sources.
SearchStart(r, limit, sources) ==
    /\ MayEnter(r)
    /\ session' = SearchSession(session, r, sources)
    /\ runs' = [runs EXCEPT ![r] =
                  [IdleCall EXCEPT !.kind = "search",
                                   !.pc = "loop",
                                   !.pos = 1,
                                   !.args = [limit |-> limit, categories |-> None,
                                             sources |-> sources,
                                             min_score |-> SearchMinScore],
                                   !.tasks = SourceSlots(sources, SearchLimit)]]
    /\ UNCHANGED <<pc, now, topics, args, ret, unique_topics, cursor, calls,
                   tasks, finished, scrapers>>

\* The loop of search takes its next source: without a scraper it continues
\* with the one after; otherwise it enters the scraper (opening its HTTP
\* session) and awaits scraper.search(query, limit=25).
SearchEnter(r) ==
    /\ runs[r].kind = "search"
    /\ runs[r].pc = "loop"
    /\ runs[r].pos <= Len(runs[r].tasks)
    /\ LET i == runs[r].pos
       IN  IF runs[r].tasks[i].source \in Supported
           THEN /\ scrapers' = [scrapers EXCEPT ![runs[r].tasks[i].source] = "open"]
                /\ runs' = [runs EXCEPT ![r].tasks[i].st = "running",
                                        ![r].tasks[i].invoked = runs[r].tasks[i].invoked + 1,
                                        ![r].pc = "awaiting"]
           ELSE /\ runs' = [runs EXCEPT ![r].tasks[i].st = "done",
                                        ![r].pos = i + 1]
                /\ UNCHANGED scrapers
    /\ UNCHANGED <<pc, now, topics, args, ret, unique_topics, cursor, calls,
                   tasks, finished, session>>

\* Mutant: a failing source ends the loop.
PosAfter_stop_on_failure(i, outcome, n) ==
    IF outcome.kind = "return" THEN i + 1 ELSE n + 1

\* The loop of search goes on with the next source, whether the source
\* returned or raised.
PosAfter(i, outcome, n) == i + 1

\* scraper.search returns (all_topics.extend(results)) or raises an
\* Exception (printed); __aexit__ closes the scraper's HTTP session and the
\* loop goes on.
SearchReturn(r, outcome) ==
    /\ runs[r].kind = "search"
    /\ runs[r].pc = "awaiting"
    /\ LET i == runs[r].pos
       IN  /\ runs' = [runs EXCEPT
                          ![r].tasks[i].st = TaskStateAfter(outcome),
                          ![r].tasks[i].fetched = IF outcome.kind = "return"
                                                  THEN Some(outcome.val) ELSE None,
                          ![r].tasks[i].result = FetchResult(outcome),
                          ![r].finished = Append(runs[r].finished, i),
                          ![r].all_topics = runs[r].all_topics
                                               \o (IF outcome.kind = "return"
                                                   THEN outcome.val ELSE <<>>),
                          ![r].pos = IF TaskStateAfter(outcome) = "done"
                                      THEN PosAfter(i, outcome, Len(runs[r].tasks))
                                      ELSE i,
                          ![r].pc = "loop"]
           /\ scrapers' = [scrapers EXCEPT ![runs[r].tasks[i].source] = AfterExit(outcome)]
    /\ UNCHANGED <<pc, now, topics, args, ret, unique_topics, cursor, calls,
                   tasks, finished, session>>

\* After the loop: deduplicate, curate with min_score=20.0, return.
SearchFinish(r) ==
    /\ runs[r].kind = "search"
    /\ runs[r].pc = "loop"
    /\ runs[r].pos > Len(runs[r].tasks)
    /\ runs' = [runs EXCEPT ![r].ret = Some(RunCurated(r)), ![r].pc = "done"]
    /\ UNCHANGED <<pc, now, topics, args, ret, unique_topics, cursor, calls,
                   tasks, finished, scrapers, session>>

RunLimitArgs == {25}

NextCalls ==
    \/ \E r \in RunIds, limit \in RunLimitArgs, sources \in RunSourceArgs :
          RunStart(r, limit, sources)
    \/ \E r \in RunIds : \E i \in 1..Len(runs[r].tasks) : RunTaskRun(r, i)
    \/ \E r \in RunIds : \E i \in 1..Len(runs[r].tasks) : RunRequest(r, i)
    \/ \E r \in RunIds : \E i \in 1..Len(runs[r].tasks) :
          \E outcome \in RunOutcomes(runs[r].tasks[i].source, runs[r].tasks[i].limit) :
              RunTaskReturn(r, i, outcome)
    \/ \E r \in RunIds : RunMerge(r)
    \/ \E r \in RunIds : RunFinish(r)
    \/ \E r \in RunIds : RunComplete(r)
    \/ \E r \in RunIds, limit \in RunLimitArgs, sources \in SearchSourceArgs :
          SearchStart(r, limit, sources)
    \/ \E r \in RunIds : SearchEnter(r)
    \/ \E r \in RunIds :
          /\ runs[r].pc = "awaiting"
          /\ \E outcome \in RunOutcomes(runs[r].tasks[runs[r].pos].source,
                                         runs[r].tasks[runs[r].pos].limit) :
                SearchReturn(r, outcome)
    \/ \E r \in RunIds : SearchFinish(r)

SpecCalls == InitCalls /\ [][NextCalls]_vars

InProgress(r) == runs[r].pc \notin {"idle", "done"}

Entered == {r \in RunIds : runs[r].pc # "idle"}

Trending == {r \in RunIds : runs[r].kind = "research_trending"}

Searches == {r \in RunIds : runs[r].kind = "search"}

\* C14 as stated: while a research_trending call runs, the researcher's
\* session is the one that call constructed, and what the call has written
\* so far stands in it: its own merged count, its own curated count, its own
\* completion.
C14_OwnSession ==
    \A r \in Trending :
        /\ runs[r].pc # "idle" => session # None
        /\ InProgress(r) => session[1].obj = r
        /\ (runs[r].pc \in {"merged", "curated", "done"} /\ session[1].obj = r)
              => session[1].topics_discovered = Len(runs[r].all_topics)
        /\ (runs[r].pc \in {"curated", "done"} /\ session[1].obj = r)
              => session[1].topics_curated = Len(runs[r].ret[1])
        /\ (runs[r].pc # "done" /\ session[1].obj = r)
              => session[1].completed_at = None

\* C15 as stated: a search call constructs a session at its start and
\* finalizes it, so that the researcher's session is always the one of the
\* call entered last.
C15_SearchSessionAsStated ==
    /\ \A r \in Searches :
          /\ session # None
          /\ runs[r].pc = "done" /\ session[1].obj = r
                => /\ session[1].completed_at # None
                   /\ session[1].topics_curated = Len(runs[r].ret[1])
    /\ \A r \in Entered :
          (\A q \in Entered : q <= r) => (session # None /\ session[1].obj = r)

\* A step of a search call leaves self._session as it is.
SearchStepKeepsSession ==
    \A r \in RunIds :
        (runs'[r] # runs[r] /\ runs'[r].kind = "search") => session' = session

\* self._session is the object constructed by the research_trending call
\* entered last, None before the first one.
SessionOfLastTrending ==
    /\ session = None <=> Trending = {}
    /\ session # None =>
          /\ session[1].obj \in Trending
          /\ \A q \in Trending : q <= session[1].obj

\* C15 amended: search constructs no session and writes to none; after any
\* sequence of research_trending and search calls the researcher's session is
\* the one constructed by the most recent research_trending call (None when
\* there was none), also when a search was called since.
C15_SearchKeepsSession == []SessionOfLastTrending /\ [][SearchStepKeepsSession]_vars

\* A research_trending call has completed, a search was called after it and
\* has returned a topic: the session is still the first call's.
C15_Witness ==
    /\ runs[1].kind = "research_trending" /\ runs[1].pc = "done"
    /\ runs[2].kind = "search" /\ runs[2].pc = "done"
    /\ runs[2].ret # Some(<<>>)
    /\ session[1].obj = 1
    /\ session[1].completed_at # None
    /\ session[1].sources_queried # SourcesToQuery(runs[2].args.sources)

\* C17: a source's fetch_trending (in research_trending) or search (in
\* search) is invoked at most once per call, and exactly once by the time
\* the call has returned, also when the invocation raised; a source without
\* a scraper has none to invoke.
C17_NoRetry ==
    \A r \in RunIds : \A i \in 1..Len(runs[r].tasks) :
        LET t == runs[r].tasks[i]
        IN  /\ t.invoked <= 1
            /\ t.st = "created" => t.invoked = 0
            /\ (t.st # "created" /\ t.source \in Supported) => t.invoked = 1
            /\ t.source \notin Supported => t.invoked = 0
            /\ runs[r].pc = "done" => t.st = "done"

\* Both kinds of call have returned with a source that raised.
C17_Witness ==
    /\ runs[1].kind = "research_trending" /\ runs[1].pc = "done"
    /\ runs[2].kind = "search" /\ runs[2].pc = "done"
    /\ \E i \in 1..Len(runs[1].tasks) :
          runs[1].tasks[i].fetched = None /\ runs[1].tasks[i].invoked = 1
    /\ Len(runs[2].tasks) = 2
    /\ runs[2].tasks[1].fetched = None /\ runs[2].tasks[1].invoked = 1
    /\ runs[2].tasks[2].fetched = Some(<<P1>>)

\* A fetch or search begins with its scraper's HTTP session open and its
\* end leaves that session closed, whether it returned or raised.
SessionScoped ==
    \A r \in RunIds : \A i \in 1..Len(runs[r].tasks) :
        /\ (runs[r].tasks[i].st # "running" /\ runs'[r].tasks[i].st = "running")
              => scrapers'[runs[r].tasks[i].source] = "open"
        /\ (runs[r].tasks[i].st = "running" /\ runs'[r].tasks[i].st # "running")
              => scrapers'[runs[r].tasks[i].source] = "closed"

\* With no call in progress no scraper holds an open HTTP session.
NoOpenSessionLeft ==
    (\A r \in RunIds : ~InProgress(r)) => \A s \in Sources : scrapers[s] # "open"

\* C18: the HTTP session a per-source fetch or search acquires on entry is
\* closed when that fetch ends, whether it returned or raised, and once the
\* calls have returned no scraper holds an open session.
C18_ScopedSession == []NoOpenSessionLeft /\ [][SessionScoped]_vars

\* Both calls have returned, one of their fetches raised, and the scrapers
\* they used are closed.
C18_Witness ==
    /\ \A r \in RunIds : ~InProgress(r)
    /\ runs[1].pc = "done" /\ runs[2].pc = "done"
    /\ runs[1].kind = "research_trending" /\ runs[2].kind = "search"
    /\ \E i \in 1..Len(runs[1].tasks) :
          /\ runs[1].tasks[i].source = "hacker_news"
          /\ runs[1].tasks[i].fetched = None /\ runs[1].tasks[i].invoked = 1
    /\ \E i \in 1..Len(runs[2].tasks) :
          /\ runs[2].tasks[i].source = "reddit"
          /\ runs[2].tasks[i].fetched = None /\ runs[2].tasks[i].invoked = 1
    /\ scrapers["reddit"] = "closed" /\ scrapers["hacker_news"] = "closed"

RECURSIVE Contributions(_, _)
Contributions(ts, n) ==
    IF n = 0 THEN <<>>
    ELSE Contributions(ts, n - 1)
            \o (IF ts[n].st = "done" /\ ts[n].fetched # None
                THEN ts[n].fetched[1] ELSE <<>>)

\* C20: search takes the sources one at a time in source-list order; a
\* source whose search raised contributes nothing and the sources after it
\* are still queried; the merged results are deduplicated, then curated with
\* minimum score 20, below the 30 of research_trending.
C20_SearchSequential ==
    \A r \in Searches :
        LET ts == runs[r].tasks
        IN  /\ \A i \in 1..Len(ts) :
                  /\ i < runs[r].pos => ts[i].st = "done"
                  /\ i > runs[r].pos => ts[i].st = "created"
                  /\ ts[i].st = "running" => (i = runs[r].pos /\ runs[r].pc = "awaiting")
            /\ \A a, b \in 1..Len(runs[r].finished) :
                  a < b => runs[r].finished[a] < runs[r].finished[b]
            /\ runs[r].all_topics = Contributions(ts, Len(ts))
            /\ runs[r].args.min_score = SearchMinScore
            /\ SearchMinScore < TrendingMinScore
            /\ runs[r].pc = "done" =>
                  /\ \A i \in 1..Len(ts) : ts[i].st = "done"
                  /\ Len(runs[r].ret[1]) <= runs[r].args.limit
                  /\ \A k \in 1..Len(runs[r].ret[1]) :
                        /\ runs[r].ret[1][k].virality_score >= SearchMinScore
                        /\ \E t \in Range(deduplicate_topics(runs[r].all_topics,
                                                             DefaultThreshold)) :
                              runs[r].ret[1][k] = [t EXCEPT !.virality_score =
                                                      runs[r].ret[1][k].virality_score]
                  /\ \A k, l \in 1..Len(runs[r].ret[1]) :
                        k < l => ~Similar(runs[r].ret[1][k], runs[r].ret[1][l],
                                          DefaultThreshold)

\* A search whose first source raised and whose second source was queried
\* after it and returned a topic, which the search returns.
C20_Witness ==
    /\ runs[1].kind = "search" /\ runs[1].pc = "done"
    /\ Len(runs[1].tasks) = 2
    /\ runs[1].tasks[1].source = "hacker_news" /\ runs[1].tasks[1].fetched = None
    /\ runs[1].finished = <<1, 2>>
    /\ runs[1].all_topics = <<P1>>
    /\ Len(runs[1].ret[1]) = 1
    /\ runs[2].pc = "idle"

(***************************************************************************)
(* SpecProductHunt: one call of ProductHuntScraper.fetch_trending          *)
(* (scrapers/product_hunt.py 94-146), as research_trending calls it with   *)
(* limit=50 and as a caller does with the default 25.                      *)
(***************************************************************************)
MaxLinks == 34

PHLimitArgs == {25, FetchLimit}

\* The product links of a fetched page: link idx (from 0) has a title shorter
\* than 3 characters when short > 0 and idx is a multiple of it, and the
\* hrefs repeat with the given period.
PHPages ==
    {[links |-> n, short |-> k, period |-> m] :
        n \in 0..MaxLinks, k \in {0, 3}, m \in {1, 7, MaxLinks + 1}}

PHTitleOk(page, idx) == page.short = 0 \/ idx % page.short # 0

\* Topic(id=f"ph_{idx}", ..., url=href, published_at=now) followed by
\* topic.virality_score = 60 - (idx * 2), in hundredths.
PHTopic(page, idx, clock) ==
    [id |-> <<"ph", idx>>, url |-> idx % page.period, category |-> "startup",
     virality_score |-> 6000 - (idx * 200), published_at |-> Some(clock)]

\* The topics whose url was not seen before, in order.
RECURSIVE DedupByUrl(_)
DedupByUrl(list) ==
    IF list = <<>> THEN <<>>
    ELSE LET front == DedupByUrl(SubSeq(list, 1, Len(list) - 1))
             last  == list[Len(list)]
         IN  IF \E j \in 1..Len(front) : front[j].url = last.url THEN front
             ELSE Append(front, last)

InitProductHunt ==
    /\ pc = "ph_fetch"
    /\ now = 101
    /\ topics = <<>>
    /\ \E limit \in PHLimitArgs : args = [limit |-> limit]
    /\ ret = <<>>
    /\ unique_topics = <<>>
    /\ cursor = 0
    /\ calls = <<>>
    /\ ResearcherIdle

\* html = await self._fetch_html(self.base_url) returns a page without
\* product sections: the fallback loop over product_links[:limit] starts.
PHFetched(page) ==
    /\ pc = "ph_fetch"
    /\ args' = [limit |-> args.limit, page |-> page]
    /\ pc' = "ph_loop"
    /\ UNCHANGED <<now, topics, ret, unique_topics, cursor, calls, orch>>

\* _fetch_html raises, or the page has product sections: topics stays empty.
PHNothing ==
    /\ pc = "ph_fetch"
    /\ ret' = <<<<>>>>
    /\ pc' = "ph_done"
    /\ UNCHANGED <<now, topics, args, unique_topics, cursor, calls, orch>>

\* One iteration of `for idx, link in enumerate(product_links[:limit])`.
PHLink ==
    /\ pc = "ph_loop"
    /\ cursor < Min(args.page.links, args.limit)
    /\ topics' = IF PHTitleOk(args.page, cursor)
                 THEN Append(topics, PHTopic(args.page, cursor, now))
                 ELSE topics
    /\ cursor' = cursor + 1
    /\ UNCHANGED <<pc, now, args, ret, unique_topics, calls, orch>>

\* Deduplicate by URL; return unique_topics[:limit].
PHReturn ==
    /\ pc = "ph_loop"
    /\ cursor = Min(args.page.links, args.limit)
    /\ ret' = <<SliceTo(DedupByUrl(topics), args.limit)>>
    /\ pc' = "ph_done"
    /\ UNCHANGED <<now, topics, args, unique_topics, cursor, calls, orch>>

NextProductHunt ==
    \/ \E page \in PHPages : PHFetched(page)
    \/ PHNothing
    \/ PHLink
    \/ PHReturn

SpecProductHunt == InitProductHunt /\ [][NextProductHunt]_vars

\* C26 as stated: every Topic an adapter hands to the core has
\* 0 <= virality_score <= 100 (0..10000 hundredths), here the topics
\* returned by ProductHuntScraper.fetch_trending(limit) for limit up to 50.
C26_AdapterScoreInRange ==
    pc = "ph_done" =>
        \A i \in 1..Len(ret[1]) : ret[1][i].virality_score \in 0..10000

(***************************************************************************)
(* SpecRate: callers of BaseScraper._check_rate_limit on one scraper       *)
(* (scrapers/base.py 55-71), as when HackerNewsScraper.fetch_trending      *)
(* gathers its story fetches (scrapers/hacker_news.py 92-97).  now is      *)
(* loop.time() in seconds, scrapers the scraper object, tasks the callers, *)
(* calls the loop times at which a request was admitted.                   *)
(***************************************************************************)
MaxCallers == 3

RateLimitArgs == {1, 2}

\* The length of the limiter's window, in seconds.
Window == 60

\* The loop times at which something can happen, besides the wake-up times.
ClockPoints == {0, 30, 59, 60, 90, 119, 120}

InitRate ==
    /\ pc = "rate"
    /\ now = 0
    /\ \E rate_limit \in RateLimitArgs :
          scrapers = [rate_limit |-> rate_limit, _request_count |-> 0, _last_reset |-> 0]
    /\ \E n \in 1..MaxCallers : tasks = [c \in 1..n |-> [st |-> "ready", wake |-> 0]]
    /\ calls = <<>>
    /\ topics = <<>>
    /\ args = <<>>
    /\ ret = <<>>
    /\ unique_topics = <<>>
    /\ cursor = 0
    /\ finished = <<>>
    /\ session = None
    /\ runs = <<>>

\* The scraper after `if current_time - self._last_reset >= 60:` and its
\* body.
AfterWindowCheck(scraper, current_time) ==
    IF current_time - scraper._last_reset >= Window
    THEN [scraper EXCEPT !._request_count = 0, !._last_reset = current_time]
    ELSE scraper

\* self._request_count += 1: the request goes out.
Admit(scraper) == [scraper EXCEPT !._request_count = scraper._request_count + 1]

\* self._request_count = 0; self._last_reset = loop.time() after the sleep
\* (or without sleep when wait_time <= 0).
AfterSleep(scraper, current_time) ==
    [scraper EXCEPT !._request_count = 0, !._last_reset = current_time]

\* Caller c runs _check_rate_limit to its end or to `await asyncio.sleep`.
CheckRateLimit(c) ==
    /\ pc = "rate"
    /\ tasks[c].st = "ready"
    /\ LET s1 == AfterWindowCheck(scrapers, now)
           wait_time == Window - (now - s1._last_reset)
       IN  IF s1._request_count >= s1.rate_limit
           THEN IF wait_time > 0
                THEN /\ scrapers' = s1
                     /\ tasks' = [tasks EXCEPT ![c] = [st |-> "sleeping", wake |-> now + wait_time]]
                     /\ UNCHANGED calls
                ELSE /\ scrapers' = Admit(AfterSleep(s1, now))
                     /\ tasks' = [tasks EXCEPT ![c].st = "done"]
                     /\ calls' = Append(calls, now)
           ELSE /\ scrapers' = Admit(s1)
                /\ tasks' = [tasks EXCEPT ![c].st = "done"]
                /\ calls' = Append(calls, now)
    /\ UNCHANGED <<pc, now, topics, args, ret, unique_topics, cursor, finished, session, runs>>

\* The sleep of caller c is over: it resets the counter and the window and
\* counts its own request.
Wake(c) ==
    /\ pc = "rate"
    /\ tasks[c].st = "sleeping"
    /\ now >= tasks[c].wake
    /\ scrapers' = Admit(AfterSleep(scrapers, now))
    /\ tasks' = [tasks EXCEPT ![c].st = "done"]
    /\ calls' = Append(calls, now)
    /\ UNCHANGED <<pc, now, topics, args, ret, unique_topics, cursor, finished, session, runs>>

\* Time passes, up to the next wake-up.
TickRate ==
    /\ pc = "rate"
    /\ \E t \in ClockPoints \cup {tasks[c].wake : c \in 1..Len(tasks)} :
          /\ t > now
          /\ \A c \in 1..Len(tasks) : tasks[c].st = "sleeping" => t <= tasks[c].wake
          /\ now' = t
    /\ UNCHANGED <<pc, topics, args, ret, unique_topics, cursor, calls, tasks, finished,
                   scrapers, session, runs>>

NextRate ==
    \/ \E c \in 1..Len(tasks) : CheckRateLimit(c)
    \/ \E c \in 1..Len(tasks) : Wake(c)
    \/ TickRate

SpecRate == InitRate /\ [][NextRate]_vars

\* C30 as stated: whatever the number of concurrent callers, at most
\* rate_limit requests are admitted in any 60-second window; the callers
\* put to sleep do not together exceed rate_limit admissions on waking.
C30_RateLimited ==
    \A i \in 1..Len(calls) :
        Cardinality({j \in 1..Len(calls) :
                        calls[i] <= calls[j] /\ calls[j] < calls[i] + Window})
            <= scrapers.rate_limit

=============================================================================
